---------------------------- MODULE Spec2Model ----------------------------
(***************************************************************************)
(* A model of indexer.c: the in-memory name index (hashTable, totalFiles), *)
(* the case-insensitive matcher (stristr), the DJB2 bucket function (hash) *)
(* and the interaction loop (app_loop) with its bounded scan, selection    *)
(* prompt and terminal handling, as main() runs them:                      *)
(*     memset; buildIndex; app_loop; clearIndex.                           *)
(*                                                                         *)
(* C strings are sequences of character codes (the terminating NUL is not  *)
(* stored), so that tolower, the hash and the substring test are computed  *)
(* character by character as the code computes them.                       *)
(***************************************************************************)
EXTENDS Integers, Sequences, FiniteSets, TLC

(***************************************************************************)
(* Program constants.                                                      *)
(***************************************************************************)
HASH_TABLE_SIZE == 16384
VIEWPORT_HEIGHT == 12
MAX_RESULTS == 50
QUERY_SIZE == 256
NUMBUF_SIZE == 16
HASH_SEED == 5381
KEY_ESC == 27
KEY_CR == 13
KEY_LF == 10
KEY_DEL == 127
KEY_BS == 8
EOF == -1

(***************************************************************************)
(* Bounds of the model.                                                    *)
(***************************************************************************)
\* files the traversal of the small tree yields at most
MaxFiles == 3
\* files the traversal of the bulk tree yields at most
MaxBulk == 14
\* allocations that may return NULL during one build
MaxAllocFail == 1
\* characters the user types into the query before backspacing or confirming
MaxQuery == 2
\* longest filename and query the matcher is applied to in SpecMatch
MaxLen == 3
\* files the traversal yields at most in the tree searched with long queries
MaxLong == 2

(***************************************************************************)
(* Characters and strings.                                                 *)
(***************************************************************************)
\* a NULL char pointer (a failed strdup); no C string holds a negative code
NULL == <<-1>>

\* tolower() in the C locale
tolower(c) == IF c >= 65 /\ c <= 90 THEN c + 32 ELSE c

\* isprint() in the C locale
isprint(c) == c >= 32 /\ c <= 126

\* isdigit() / isspace() as atoi uses them
isdigit(c) == c >= 48 /\ c <= 57
isspace(c) == c = 32 \/ (c >= 9 /\ c <= 13)

Lower(s) == [i \in 1..Len(s) |-> tolower(s[i])]

(***************************************************************************)
(* stristr(haystack, needle).  The outer loop walks the haystack; at a     *)
(* position whose character folds to the needle's first one the inner loop *)
(* advances both while they agree, and the position is returned when the   *)
(* needle is used up.                                                      *)
(***************************************************************************)
RECURSIVE InnerLoop(_, _, _, _)
\* the while loop of lines 75-78; returns the value of n (1-based) it ends with
InnerLoop(haystack, needle, h, n) ==
    IF h <= Len(haystack) /\ n <= Len(needle)
       /\ tolower(haystack[h]) = tolower(needle[n])
    THEN InnerLoop(haystack, needle, h + 1, n + 1)
    ELSE n

RECURSIVE OuterLoop(_, _, _)
\* the for loop of lines 72-81 from position p on: the position returned, 0 for NULL
OuterLoop(haystack, needle, p) ==
    IF p > Len(haystack) THEN 0
    ELSE IF tolower(haystack[p]) = tolower(needle[1])
            /\ InnerLoop(haystack, needle, p, 1) > Len(needle)
         THEN p
         ELSE OuterLoop(haystack, needle, p + 1)

\* a variant that gives up after the first position whose character agrees
StristrFirstOnly(haystack, needle) ==
    IF Len(needle) = 0 THEN 1
    ELSE LET cand == {p \in 1..Len(haystack) :
                         /\ tolower(haystack[p]) = tolower(needle[1])
                         /\ \A r \in 1..(p - 1) :
                               tolower(haystack[r]) # tolower(needle[1])}
         IN IF \E p \in cand : InnerLoop(haystack, needle, p, 1) > Len(needle)
            THEN CHOOSE p \in cand : TRUE
            ELSE 0

\* the position (1-based) of the pointer returned, 0 for NULL
stristr(haystack, needle) ==
    IF Len(needle) = 0 THEN 1
    ELSE OuterLoop(haystack, needle, 1)

(***************************************************************************)
(* hash(str): DJB2 over the lowercased bytes in an unsigned long, reduced  *)
(* modulo HASH_TABLE_SIZE.  An unsigned long is a little-endian sequence   *)
(* of 16-bit limbs, so that the shift and the additions wrap at the word   *)
(* width exactly as the machine's do.                                      *)
(***************************************************************************)
LIMB == 65536
\* limbs of an unsigned long: 4 on LP64 (the POSIX build)
ULONG_LIMBS == 4

\* the unsigned long holding the small number v (v < LIMB)
ULong(v) == [i \in 1..ULONG_LIMBS |-> IF i = 1 THEN v ELSE 0]

RECURSIVE ShlLimbs(_, _, _)
\* x << 5 from limb i on, with the bits carried in from the limb below
ShlLimbs(x, i, carry) ==
    IF i > Len(x) THEN <<>>
    ELSE LET t == x[i] * 32 + carry
         IN <<t % LIMB>> \o ShlLimbs(x, i + 1, t \div LIMB)

RECURSIVE AddLimbs(_, _, _, _)
\* x + y from limb i on; the carry out of the top limb is dropped
AddLimbs(x, y, i, carry) ==
    IF i > Len(x) THEN <<>>
    ELSE LET t == x[i] + y[i] + carry
         IN <<t % LIMB>> \o AddLimbs(x, y, i + 1, t \div LIMB)

RECURSIVE ModLimbs(_, _, _)
\* the value of limbs i.. of x, modulo m (m < 32768, so no step overflows)
ModLimbs(x, i, m) ==
    IF i > Len(x) THEN 0
    ELSE (x[i] + LIMB * ModLimbs(x, i + 1, m)) % m

RECURSIVE HashLoop(_, _, _)
\* the while loop of lines 88-89 from character k on
HashLoop(str, k, h) ==
    IF k > Len(str) THEN h
    ELSE HashLoop(str, k + 1,
                  AddLimbs(AddLimbs(ShlLimbs(h, 1, 0), h, 1, 0),
                           ULong(tolower(str[k])), 1, 0))

RECURSIVE HashLoopNoFold(_, _, _)
HashLoopNoFold(str, k, h) ==
    IF k > Len(str) THEN h
    ELSE HashLoopNoFold(str, k + 1,
                  AddLimbs(AddLimbs(ShlLimbs(h, 1, 0), h, 1, 0),
                           ULong(str[k]), 1, 0))

\* a variant that hashes the bytes as they are, without tolower
HashNoFold(str) == ModLimbs(HashLoopNoFold(str, 1, ULong(HASH_SEED)), 1, HASH_TABLE_SIZE)

hash(str) == ModLimbs(HashLoop(str, 1, ULong(HASH_SEED)), 1, HASH_TABLE_SIZE)

(***************************************************************************)
(* The state of the program and of what surrounds it.                      *)
(***************************************************************************)
VARIABLES
    pc,          \* where main() is: "build", "typing", "confirming",
                 \* "terminated", "done", or "crashed" (a NULL dereference),
                 \* "overrun" (a store past the end of matches[])
    hashTable,   \* bucket index |-> chain of entries, head first; a bucket
                 \* that is NULL is not in the domain
    totalFiles,
    query,       \* the contents of query[] up to its first NUL
    pos,
    matches,     \* matches[0 .. count-1] of the current iteration
    scanned,     \* entries the scan of the current iteration visited
    term,        \* the c_lflag bits of the terminal among ICANON and ECHO
    termStart,   \* those bits when app_loop was entered
    numBuf,      \* what the fgets of the last step left in numBuf: the
                 \* line read, NULL when it returned NULL, empty when the
                 \* step read no line
    opened,      \* the paths handed to openFile by the last step
    root,        \* the directory tree being indexed
    seen,        \* file name |-> files of that name the traversal has yielded
    refused,     \* calls of addFile whose malloc of the entry returned NULL
    stdin,       \* bytes of the last line typed that no read has consumed yet
    haystack, needle, found   \* one direct application of stristr (SpecMatch)

progVars == <<pc, hashTable, totalFiles, query, pos, matches, scanned, term,
              termStart, numBuf, opened, root, seen, refused, stdin>>
matchVars == <<haystack, needle, found>>
vars == <<progVars, matchVars>>

(***************************************************************************)
(* The file names the traversal can yield.                                 *)
(***************************************************************************)
\* "a", "A", "ab", "Report_Final.PDF"
TreeNames ==
    { <<97>>, <<65>>, <<97, 98>>,
      <<82, 101, 112, 111, 114, 116, 95, 70, 105, 110, 97, 108, 46, 80, 68, 70>> }
\* "ab", "b", "ba"
BulkNames == { <<97, 98>>, <<98>>, <<98, 97>> }
\* "zz"
LongNames == { <<122, 122>> }
AllNames == TreeNames \cup BulkNames \cup LongNames
NamesOf(r) == IF r = "tree" THEN TreeNames
              ELSE IF r = "bulk" THEN BulkNames ELSE LongNames
\* files the traversal yields at most
FilesOf(r) == IF r = "tree" THEN MaxFiles
              ELSE IF r = "bulk" THEN MaxBulk ELSE MaxLong
\* allocations that may fail during the build
AllocFailsOf(r) == IF r = "tree" THEN MaxAllocFail ELSE 0

\* the characters the user types: 'a', 'B'
QueryChars == {97, 66}
\* the character the user types over the tree of LongNames: 'z'
LongChars == {122}
CharsOf(r) == IF r = "long" THEN LongChars ELSE QueryChars
\* characters the user types before backspacing or confirming; over the
\* tree of LongNames the user goes on typing, and the buffer alone sets the
\* limit
TypedOf(r) == IF r = "long" THEN QUERY_SIZE ELSE MaxQuery
\* inputs the loop ignores: end of input, TAB
IgnoredKeys == {EOF, 9}

RECURSIVE SumOver(_, _)
SumOver(f, S) ==
    IF S = {} THEN 0
    ELSE LET e == CHOOSE e \in S : TRUE IN f[e] + SumOver(f, S \ {e})

Yielded == SumOver(seen, AllNames)

\* snprintf(fullPath, "%s/%s", basePath, d_name): the k-th file of a name
\* lies in a directory of its own, whose path is one character here
FullPath(name, k) == <<48 + k, 47>> \o name

(***************************************************************************)
(* The index.                                                              *)
(***************************************************************************)
EmptyTable == [b \in {} |-> <<>>]

Bucket(table, i) == IF i \in DOMAIN table THEN table[i] ELSE <<>>

\* the outcomes of the three allocations of addFile: TRUE is success
AllocOutcomes == [entry : BOOLEAN, name : BOOLEAN, path : BOOLEAN]
AllocFailures(alloc) ==
    IF ~alloc.entry THEN 1
    ELSE (IF alloc.name THEN 0 ELSE 1) + (IF alloc.path THEN 0 ELSE 1)

\* strdup fields that are NULL in the table
NullFields(table) ==
    SumOver([b \in DOMAIN table |->
               Cardinality({k \in 1..Len(table[b]) : table[b][k].filename = NULL})
               + Cardinality({k \in 1..Len(table[b]) : table[b][k].fullpath = NULL})],
            DOMAIN table)

\* a variant that counts the file before the entry is allocated
AddFileCountsFirst(table, total, name, path, alloc) ==
    LET index == hash(name)
        newEntry == [filename |-> IF alloc.name THEN name ELSE NULL,
                     fullpath |-> IF alloc.path THEN path ELSE NULL]
    IN IF ~alloc.entry
       THEN [table |-> table, total |-> total + 1]
       ELSE [table |-> [b \in DOMAIN table \cup {index} |->
                          IF b = index THEN <<newEntry>> \o Bucket(table, index)
                          ELSE table[b]],
             total |-> total + 1]

\* addFile(name, path) on the index <<table, total>>: the index it leaves
addFile(table, total, name, path, alloc) ==
    LET index == hash(name)
        newEntry == [filename |-> IF alloc.name THEN name ELSE NULL,
                     fullpath |-> IF alloc.path THEN path ELSE NULL]
    IN IF ~alloc.entry
       THEN [table |-> table, total |-> total]
       ELSE [table |-> [b \in DOMAIN table \cup {index} |->
                          IF b = index THEN <<newEntry>> \o Bucket(table, index)
                          ELSE table[b]],
             total |-> total + 1]

\* a variant that forgets the counter
ClearIndexKeepsCount(table, total) == [table |-> EmptyTable, total |-> total]

\* clearIndex(): every chain is freed and every bucket set to NULL
clearIndex(table, total) == [table |-> EmptyTable, total |-> 0]

(***************************************************************************)
(* The scan of app_loop (lines 274-290).                                   *)
(***************************************************************************)
RECURSIVE SortedFrom(_)
\* the elements of a set of numbers, ascending
SortedFrom(S) ==
    IF S = {} THEN <<>>
    ELSE LET m == CHOOSE m \in S : \A o \in S : m <= o
         IN <<m>> \o SortedFrom(S \ {m})

\* the scan before its first entry
ScanStart == [matches |-> <<>>, visited |-> 0, stop |-> "none"]

RECURSIVE ScanChainNoFilter(_, _, _, _)
\* a variant that stores every entry it visits, matching or not
ScanChainNoFilter(chain, e, q, st) ==
    IF e > Len(chain) THEN st
    ELSE IF chain[e].filename = NULL
         THEN [matches |-> st.matches, visited |-> st.visited + 1, stop |-> "segv"]
    ELSE IF Len(st.matches) >= MAX_RESULTS
         THEN [matches |-> st.matches, visited |-> st.visited + 1, stop |-> "oob"]
    ELSE IF Len(st.matches) + 1 >= VIEWPORT_HEIGHT
         THEN [matches |-> Append(st.matches, chain[e]),
               visited |-> st.visited + 1, stop |-> "cap"]
    ELSE ScanChainNoFilter(chain, e + 1, q,
                   [matches |-> Append(st.matches, chain[e]),
                    visited |-> st.visited + 1, stop |-> "none"])

RECURSIVE ScanChainLateCap(_, _, _, _)
\* a variant whose test is count > VIEWPORT_HEIGHT
ScanChainLateCap(chain, e, q, st) ==
    IF e > Len(chain) THEN st
    ELSE IF chain[e].filename = NULL
         THEN [matches |-> st.matches, visited |-> st.visited + 1, stop |-> "segv"]
    ELSE IF stristr(chain[e].filename, q) = 0
         THEN ScanChainLateCap(chain, e + 1, q,
                        [matches |-> st.matches, visited |-> st.visited + 1,
                         stop |-> "none"])
    ELSE IF Len(st.matches) >= MAX_RESULTS
         THEN [matches |-> st.matches, visited |-> st.visited + 1, stop |-> "oob"]
    ELSE IF Len(st.matches) + 1 > VIEWPORT_HEIGHT
         THEN [matches |-> Append(st.matches, chain[e]),
               visited |-> st.visited + 1, stop |-> "cap"]
    ELSE ScanChainLateCap(chain, e + 1, q,
                   [matches |-> Append(st.matches, chain[e]),
                    visited |-> st.visited + 1, stop |-> "none"])

RECURSIVE ScanChain(_, _, _, _)
\* the while loop of lines 281-287 from the e-th entry of a chain on.  stop
\* tells how the scan ended: "cap" by the goto, "segv" by stristr reading a
\* NULL filename, "oob" by a write past matches[MAX_RESULTS - 1]
ScanChain(chain, e, q, st) ==
    IF e > Len(chain) THEN st
    ELSE IF chain[e].filename = NULL
         THEN [matches |-> st.matches, visited |-> st.visited + 1, stop |-> "segv"]
    ELSE IF stristr(chain[e].filename, q) = 0
         THEN ScanChain(chain, e + 1, q,
                        [matches |-> st.matches, visited |-> st.visited + 1,
                         stop |-> "none"])
    ELSE IF Len(st.matches) >= MAX_RESULTS
         THEN [matches |-> st.matches, visited |-> st.visited + 1, stop |-> "oob"]
    ELSE IF Len(st.matches) + 1 >= VIEWPORT_HEIGHT
         THEN [matches |-> Append(st.matches, chain[e]),
               visited |-> st.visited + 1, stop |-> "cap"]
    ELSE ScanChain(chain, e + 1, q,
                   [matches |-> Append(st.matches, chain[e]),
                    visited |-> st.visited + 1, stop |-> "none"])

RECURSIVE ScanTableNoGoto(_, _, _, _, _)
\* a variant whose goto leaves only the chain: the scan goes on with the
\* next bucket
ScanTableNoGoto(table, buckets, i, q, st) ==
    IF i > Len(buckets) \/ st.stop \in {"segv", "oob"} THEN st
    ELSE ScanTableNoGoto(table, buckets, i + 1, q,
                   ScanChain(table[buckets[i]], 1, q,
                             [matches |-> st.matches, visited |-> st.visited,
                              stop |-> "none"]))

RECURSIVE ScanTable(_, _, _, _, _)
\* the for loop of lines 279-288 over the buckets that are not NULL, in
\* ascending index (a NULL bucket has no entry to visit); the goto and the
\* fault both leave it
ScanTable(table, buckets, i, q, st) ==
    IF i > Len(buckets) \/ st.stop # "none" THEN st
    ELSE ScanTable(table, buckets, i + 1, q,
                   ScanChain(table[buckets[i]], 1, q, st))

\* a variant without the strlen(query) > 0 test
SearchAlwaysScans(table, q) ==
    ScanTable(table, SortedFrom(DOMAIN table), 1, q, ScanStart)

\* lines 275-290: count and matches[] for the query q
Search(table, q) ==
    IF Len(q) > 0
    THEN ScanTable(table, SortedFrom(DOMAIN table), 1, q, ScanStart)
    ELSE ScanStart

\* render_ui reads fullpath of every match shown (shorten_path: strlen)
RenderCrashes(ms) == \E i \in 1..Len(ms) : i <= VIEWPORT_HEIGHT /\ ms[i].fullpath = NULL

(***************************************************************************)
(* The terminal and the selection prompt.                                  *)
(***************************************************************************)
LFlags == {"ICANON", "ECHO"}

\* get_char_raw: the mode the terminal is left in
get_char_raw(t) ==
    LET oldt == t
        newt == oldt \ LFlags
        reading == newt        \* tcsetattr(newt); getchar()
    IN oldt                    \* tcsetattr(oldt)

\* lines 313-317
PromptBegin(t) == t \cup LFlags
\* lines 329-332
PromptEnd(t) == t \ LFlags

\* fgets(numBuf, sizeof(numBuf), stdin) on the next input line (its newline
\* included); NULL at end of input
fgets(line) ==
    IF line = NULL THEN NULL
    ELSE SubSeq(line, 1, IF Len(line) < NUMBUF_SIZE - 1 THEN Len(line) ELSE NUMBUF_SIZE - 1)

\* the bytes of the line that fgets left unread: what lies beyond the
\* NUMBUF_SIZE - 1 characters it stores
Unread(line) ==
    IF line = NULL THEN <<>>
    ELSE SubSeq(line, NUMBUF_SIZE, Len(line))

RECURSIVE SkipSpace(_, _)
SkipSpace(s, i) == IF i <= Len(s) /\ isspace(s[i]) THEN SkipSpace(s, i + 1) ELSE i

RECURSIVE Digits(_, _, _)
Digits(s, i, acc) ==
    IF i <= Len(s) /\ isdigit(s[i]) THEN Digits(s, i + 1, acc * 10 + (s[i] - 48)) ELSE acc

\* atoi: white space, an optional sign, then the digits up to the first
\* character that is not one
atoi(s) ==
    LET i == SkipSpace(s, 1)
        signed == i <= Len(s) /\ s[i] \in {43, 45}
        j == IF signed THEN i + 1 ELSE i
    IN IF signed /\ s[i] = 45 THEN 0 - Digits(s, j, 0) ELSE Digits(s, j, 0)

\* a variant that indexes matches[] by choice instead of choice - 1
SelectedOffByOne(ms, buf) ==
    IF buf = NULL THEN <<>>
    ELSE LET choice == atoi(buf)
         IN IF choice > 0 /\ choice <= Len(ms)
            THEN <<ms[IF choice < Len(ms) THEN choice + 1 ELSE choice].fullpath>>
            ELSE <<>>

\* lines 321-326: the paths openFile is called with, for the matches ms shown
\* and what fgets returned (the array is 1-based here: matches[choice - 1])
Selected(ms, buf) ==
    IF buf = NULL THEN <<>>
    ELSE LET choice == atoi(buf)
         IN IF choice > 0 /\ choice <= Len(ms)
            THEN <<ms[choice].fullpath>>
            ELSE <<>>

\* the lines typed at the prompt: "0", "1", "2", "13", "2x", "x", "", " 1",
\* "-1", ESC, each with its newline, and end of input
PromptInputs ==
    { <<48, 10>>, <<49, 10>>, <<50, 10>>, <<49, 51, 10>>, <<50, 120, 10>>,
      <<120, 10>>, <<10>>, <<32, 49, 10>>, <<45, 49, 10>>, <<27, 10>>, NULL }

\* a line longer than numBuf holds: NUMBUF_SIZE - 1 times 'x', ESC, newline
LongLine == [i \in 1..(NUMBUF_SIZE - 1) |-> 120] \o <<KEY_ESC, KEY_LF>>

\* what the fgets of the prompt can read: the bytes left unread if there
\* are any (one line at most), else the line the user types
LinesAt(unread) == IF unread # <<>> THEN {unread} ELSE PromptInputs \cup {LongLine}

\* what getchar can return: the first byte left unread if there is one,
\* else the key ch the user presses
Readable(unread, ch) == IF unread = <<>> THEN TRUE ELSE ch = Head(unread)
AfterGetchar(unread) == IF unread = <<>> THEN <<>> ELSE Tail(unread)

(***************************************************************************)
(* The steps of main().                                                    *)
(***************************************************************************)
\* a variant that searches with the query as it was before the input
IterateStale(q) ==
    \E s \in {Search(hashTable, query)} :
       /\ matches' = s.matches
       /\ scanned' = s.visited
       /\ pc' = IF s.stop = "oob" THEN "overrun"
                ELSE IF s.stop = "segv" \/ RenderCrashes(s.matches) THEN "crashed"
                ELSE "typing"

\* the top of an iteration of the loop for the query q: the scan and render_ui
Iterate(q) ==
    \E s \in {Search(hashTable, q)} :
       /\ matches' = s.matches
       /\ scanned' = s.visited
       /\ pc' = IF s.stop = "oob" THEN "overrun"
                ELSE IF s.stop = "segv" \/ RenderCrashes(s.matches) THEN "crashed"
                ELSE "typing"

\* a variant in which the traversal goes on while the loop reads input
AddFileDuringLoop ==
    /\ pc \in {"build", "typing"}
    /\ Yielded < FilesOf(root)
    /\ \E name \in NamesOf(root), alloc \in AllocOutcomes :
          /\ refused + NullFields(hashTable) + AllocFailures(alloc) <= AllocFailsOf(root)
          /\ LET r == addFile(hashTable, totalFiles, name,
                              FullPath(name, seen[name] + 1), alloc)
             IN /\ hashTable' = r.table
                /\ totalFiles' = r.total
          /\ seen' = [seen EXCEPT ![name] = @ + 1]
          /\ refused' = IF alloc.entry THEN refused ELSE refused + 1
    /\ UNCHANGED <<pc, query, pos, matches, scanned, term, termStart, numBuf,
                   opened, root, stdin>>
    /\ UNCHANGED matchVars

\* traverseDirectory yields one more file and calls addFile
AddFile ==
    /\ pc = "build"
    /\ Yielded < FilesOf(root)
    /\ \E name \in NamesOf(root), alloc \in AllocOutcomes :
          /\ refused + NullFields(hashTable) + AllocFailures(alloc) <= AllocFailsOf(root)
          /\ LET r == addFile(hashTable, totalFiles, name,
                              FullPath(name, seen[name] + 1), alloc)
             IN /\ hashTable' = r.table
                /\ totalFiles' = r.total
          /\ seen' = [seen EXCEPT ![name] = @ + 1]
          /\ refused' = IF alloc.entry THEN refused ELSE refused + 1
    /\ UNCHANGED <<pc, query, pos, matches, scanned, term, termStart, numBuf,
                   opened, root, stdin>>
    /\ UNCHANGED matchVars

\* buildIndex returns and app_loop runs up to its first read
StartLoop ==
    /\ pc = "build"
    /\ query' = <<>>
    /\ pos' = 0
    /\ Iterate(<<>>)
    /\ termStart' = term
    /\ numBuf' = <<>>
    /\ opened' = <<>>
    /\ UNCHANGED <<hashTable, totalFiles, term, root, seen, refused, stdin>>
    /\ UNCHANGED matchVars

\* a variant in which ESC over a query that is not empty only empties it
HandleEscapeClearsFirst ==
    IF pos > 0
    THEN /\ term' = get_char_raw(term)
         /\ query' = <<>>
         /\ pos' = 0
         /\ Iterate(<<>>)
    ELSE /\ pc' = "terminated"
         /\ term' = get_char_raw(term)
         /\ UNCHANGED <<query, pos, matches, scanned>>

\* line 302: the loop is left, with the terminal as get_char_raw left it
HandleEscape ==
    /\ pc' = "terminated"
    /\ term' = get_char_raw(term)
    /\ UNCHANGED <<query, pos, matches, scanned>>

\* a variant that prompts for a selection whether or not anything is shown
HandleEnterAlwaysPrompts ==
    /\ pc' = "confirming"
    /\ term' = PromptBegin(get_char_raw(term))
    /\ UNCHANGED <<query, pos, matches, scanned>>

\* lines 305-344: with matches shown the prompt is printed and the terminal
\* switched to line input; without, nothing is done and the loop goes round
HandleEnter ==
    IF Len(matches) > 0
    THEN /\ pc' = "confirming"
         /\ term' = PromptBegin(get_char_raw(term))
         /\ UNCHANGED <<query, pos, matches, scanned>>
    ELSE /\ term' = get_char_raw(term)
         /\ UNCHANGED <<query, pos>>
         /\ Iterate(query)

\* a variant without the pos > 0 test
EraseUnchecked(q, p) == [query |-> SubSeq(q, 1, p - 1), pos |-> p - 1]

\* lines 347-349: query[--pos] = '\0' when pos > 0; the buffer and pos it leaves
Erase(q, p) ==
    IF p > 0
    THEN [query |-> SubSeq(q, 1, p - 1), pos |-> p - 1]
    ELSE [query |-> q, pos |-> p]

\* lines 346-350
HandleBackspace ==
    /\ term' = get_char_raw(term)
    /\ query' = Erase(query, pos).query
    /\ pos' = Erase(query, pos).pos
    /\ Iterate(query')

\* a variant whose limit is the size of the buffer, not its last index
AcceptsOffByOne(ch, p) == isprint(ch) /\ p < QUERY_SIZE

\* the test of line 352
Accepts(ch, p) == isprint(ch) /\ p < QUERY_SIZE - 1

\* lines 353-354
HandleTyping(ch) ==
    /\ term' = get_char_raw(term)
    /\ query' = Append(SubSeq(query, 1, pos), ch)
    /\ pos' = pos + 1
    /\ Iterate(query')

\* no branch of the chain takes the input
HandleNothing ==
    /\ term' = get_char_raw(term)
    /\ UNCHANGED <<query, pos>>
    /\ Iterate(query)

\* lines 299-355 for the input ch, and the next iteration up to its read
KeyStep(ch) ==
    /\ pc = "typing"
    /\ Readable(stdin, ch)
    /\ stdin' = AfterGetchar(stdin)
    /\ numBuf' = <<>>
    /\ opened' = <<>>
    /\ UNCHANGED <<hashTable, totalFiles, termStart, root, seen, refused>>
    /\ UNCHANGED matchVars
    /\ IF ch = KEY_ESC THEN HandleEscape
       ELSE IF ch = KEY_CR \/ ch = KEY_LF THEN HandleEnter
       ELSE IF ch = KEY_DEL \/ ch = KEY_BS THEN HandleBackspace
       ELSE IF Accepts(ch, pos) THEN HandleTyping(ch)
       ELSE HandleNothing

PressEscape == KeyStep(KEY_ESC)
PressEnter == \E ch \in {KEY_CR, KEY_LF} : KeyStep(ch)
PressBackspace == \E ch \in {KEY_DEL, KEY_BS} : KeyStep(ch)
TypeChar == \E ch \in CharsOf(root) : Len(query) < TypedOf(root) /\ KeyStep(ch)
IgnoredKey == \E ch \in IgnoredKeys : KeyStep(ch)

\* a variant that resets the query only when a file has been opened
SelectResetsOnOpen ==
    /\ pc = "confirming"
    /\ \E line \in LinesAt(stdin) :
          /\ numBuf' = fgets(line)
          /\ stdin' = Unread(line)
          /\ opened' = Selected(matches, numBuf')
    /\ term' = PromptEnd(term)
    /\ query' = IF opened' # <<>> THEN <<>> ELSE query
    /\ pos' = IF opened' # <<>> THEN 0 ELSE pos
    /\ Iterate(query')
    /\ UNCHANGED <<hashTable, totalFiles, termStart, root, seen, refused>>
    /\ UNCHANGED matchVars

\* lines 320-342 for the next input line, and the next iteration up to its read
Select ==
    /\ pc = "confirming"
    /\ \E line \in LinesAt(stdin) :
          /\ numBuf' = fgets(line)
          /\ stdin' = Unread(line)
          /\ opened' = Selected(matches, numBuf')
    /\ term' = PromptEnd(term)
    /\ query' = <<>>
    /\ pos' = 0
    /\ Iterate(<<>>)
    /\ UNCHANGED <<hashTable, totalFiles, termStart, root, seen, refused>>
    /\ UNCHANGED matchVars

\* app_loop has returned: clearIndex(), and main returns
ClearIndex ==
    /\ pc = "terminated"
    /\ LET r == clearIndex(hashTable, totalFiles)
       IN /\ hashTable' = r.table
          /\ totalFiles' = r.total
    /\ pc' = "done"
    /\ numBuf' = <<>>
    /\ opened' = <<>>
    /\ UNCHANGED <<query, pos, matches, scanned, term, termStart, root, seen,
                   refused, stdin>>
    /\ UNCHANGED matchVars

\* the terminal as an interactive shell hands it over
Cooked == LFlags

\* main() before buildIndex, indexing the tree r on a terminal in one of modes
InitProg(r, modes) ==
    /\ pc = "build"
    /\ hashTable = EmptyTable
    /\ totalFiles = 0
    /\ query = <<>>
    /\ pos = 0
    /\ matches = <<>>
    /\ scanned = 0
    /\ term \in modes
    /\ termStart = term
    /\ numBuf = <<>>
    /\ opened = <<>>
    /\ root = r
    /\ seen = [n \in AllNames |-> 0]
    /\ refused = 0
    /\ stdin = <<>>

NoMatchCall == haystack = <<>> /\ needle = <<>> /\ found = -1

Init == InitProg("tree", {Cooked, {}}) /\ NoMatchCall

Next ==
    \/ AddFile
    \/ StartLoop
    \/ PressEscape
    \/ PressEnter
    \/ PressBackspace
    \/ TypeChar
    \/ IgnoredKey
    \/ Select
    \/ ClearIndex

\* the program over a small tree, where allocations may fail, started on a
\* terminal that is in canonical mode with echo or has both switched off
Spec == Init /\ [][Next]_vars

InitBulk == InitProg("bulk", {Cooked}) /\ NoMatchCall

\* the program over a tree of many files of few names
SpecBulk == InitBulk /\ [][Next]_vars

InitLong == InitProg("long", {Cooked}) /\ NoMatchCall

\* the program over a tree of one name, with queries of any length the
\* buffer takes
SpecLong == InitLong /\ [][Next]_vars

(***************************************************************************)
(* The matcher applied directly to a filename and a query.                 *)
(***************************************************************************)
\* 'a', 'A', 'b', '@'
MatchChars == {97, 65, 98, 64}
Strings(n) == UNION {[1..k -> MatchChars] : k \in 0..n}

InitMatch ==
    /\ InitProg("tree", {Cooked})
    /\ haystack \in Strings(MaxLen)
    /\ needle \in Strings(MaxLen)
    /\ found = -1

ApplyStristr ==
    /\ found = -1
    /\ found' = stristr(haystack, needle)
    /\ UNCHANGED <<haystack, needle>>
    /\ UNCHANGED progVars

SpecMatch == InitMatch /\ [][ApplyStristr]_vars
(***************************************************************************)
(* The notions the properties are stated with.                             *)
(***************************************************************************)
\* s occurs in t as a contiguous substring
IsSubstring(s, t) ==
    \E i \in 0..(Len(t) - Len(s)) : SubSeq(t, i + 1, i + Len(s)) = s

\* the matcher's contract for an entry: its filename, case-folded, contains
\* the case-folded query
NameMatches(e, q) ==
    e.filename # NULL /\ IsSubstring(Lower(q), Lower(e.filename))

RECURSIVE Concat(_, _, _)
Concat(table, buckets, i) ==
    IF i > Len(buckets) THEN <<>>
    ELSE table[buckets[i]] \o Concat(table, buckets, i + 1)

\* the entries in enumeration order: buckets in ascending index, each chain
\* from its head (the entry inserted last)
Enumeration(table) == Concat(table, SortedFrom(DOMAIN table), 1)

\* the matching entries, in enumeration order
MatchingOf(table, q) == SelectSeq(Enumeration(table), LAMBDA e : NameMatches(e, q))

Prefix(s, n) == SubSeq(s, 1, IF Len(s) < n THEN Len(s) ELSE n)

\* how many entries a scan visits that stops at its cap-th match
VisitedUpTo(table, q, cap) ==
    LET es == Enumeration(table)
        hits(k) == Len(SelectSeq(SubSeq(es, 1, k), LAMBDA e : NameMatches(e, q)))
    IN IF hits(Len(es)) < cap THEN Len(es)
       ELSE CHOOSE k \in 1..Len(es) : hits(k) = cap /\ hits(k - 1) = cap - 1

\* the sum of the bucket lengths
SumOfBuckets(table) == SumOver([b \in DOMAIN table |-> Len(table[b])], DOMAIN table)

\* the name an entry was inserted under: its filename, or the last
\* component of its path when the filename is missing
HasName(e) == e.filename # NULL \/ e.fullpath # NULL
EntryName(e) == IF e.filename # NULL THEN e.filename
                ELSE SubSeq(e.fullpath, 3, Len(e.fullpath))

\* the places <<bucket, position>> of the table
Places(table) == UNION {{<<b, k>> : k \in 1..Len(table[b])} : b \in DOMAIN table}

RECURSIVE Djb2(_, _, _)
\* h = h * 33 + c over the characters of s from the k-th on, modulo the
\* table size
Djb2(s, k, h) ==
    IF k > Len(s) THEN h
    ELSE Djb2(s, k + 1, (h * 33 + s[k]) % HASH_TABLE_SIZE)

\* the decimal numeral of k (k < 100)
DecimalOf(k) == IF k < 10 THEN <<48 + k>> ELSE <<48 + (k \div 10), 48 + (k % 10)>>

\* the line buf is a numeral for k: the digits of k alone on the line
Denotes(buf, k) ==
    /\ buf # NULL
    /\ \E pre \in {<<>>, <<32>>, <<43>>}, post \in {<<>>, <<10>>} :
          buf = pre \o DecimalOf(k) \o post

\* the queries the user can have typed
Queries == UNION {[1..k -> QueryChars] : k \in 0..MaxQuery}

\* the last scan returned, and matches[] holds its result for query
Returned == pc \in {"typing", "confirming", "terminated"}

(***************************************************************************)
(* The properties.                                                         *)
(***************************************************************************)
\* C1: the match list of a search holds at most MAX_RESULTS entries, and
\* every entry in it has a filename that contains the query, case-folded.
C1_BoundedAndMatching ==
    Returned =>
        /\ Len(matches) <= MAX_RESULTS
        /\ \A i \in 1..Len(matches) : NameMatches(matches[i], query)

\* a capped result over an index that also holds entries that do not match
C1_Witness ==
    /\ pc = "typing"
    /\ Len(matches) = VIEWPORT_HEIGHT
    /\ Len(MatchingOf(hashTable, query)) > Len(matches)
    /\ Len(Enumeration(hashTable)) > Len(MatchingOf(hashTable, query))

\* C2 as claimed: for a non-empty query the result is the first
\* min(MAX_RESULTS, M) matching entries in enumeration order, and the scan
\* stops at the MAX_RESULTS-th match.
C2_FirstUpToMaxResults ==
    (Returned /\ Len(query) > 0) =>
        /\ matches = Prefix(MatchingOf(hashTable, query), MAX_RESULTS)
        /\ scanned = VisitedUpTo(hashTable, query, MAX_RESULTS)

\* C2 as amended: for a non-empty query the result is the first
\* min(VIEWPORT_HEIGHT, M) matching entries in enumeration order; the scan
\* stops at the VIEWPORT_HEIGHT-th match, and with M <= VIEWPORT_HEIGHT
\* every matching entry is returned.
C2_FirstUpToViewport ==
    (Returned /\ Len(query) > 0) =>
        /\ matches = Prefix(MatchingOf(hashTable, query), VIEWPORT_HEIGHT)
        /\ scanned = VisitedUpTo(hashTable, query, VIEWPORT_HEIGHT)
        /\ Len(MatchingOf(hashTable, query)) <= VIEWPORT_HEIGHT
              => matches = MatchingOf(hashTable, query)

\* a scan that stopped early, in a later bucket than its first match, with
\* matching entries left out
C2_Witness ==
    /\ pc = "typing"
    /\ Len(query) > 0
    /\ Len(MatchingOf(hashTable, query)) > VIEWPORT_HEIGHT
    /\ scanned < Len(Enumeration(hashTable))
    /\ \E i \in 1..Len(matches) : matches[i].filename # matches[1].filename

\* C3: stristr returns a non-NULL pointer iff the lowercased query occurs
\* in the lowercased filename; the empty query matches every filename and
\* a query longer than the filename matches none.
C3_MatcherIsFoldedSubstring ==
    found # -1 =>
        /\ (found # 0) <=> IsSubstring(Lower(needle), Lower(haystack))
        /\ Len(needle) = 0 => found # 0
        /\ Len(needle) > Len(haystack) => found = 0

\* a match found after a candidate position that failed, across letter case
C3_Witness ==
    /\ found > 1
    /\ Len(needle) > 1
    /\ tolower(haystack[1]) = tolower(needle[1])
    /\ haystack[found] # needle[1]

\* C4: with an empty query the search returns no match and visits no entry,
\* whatever the index holds, although the matcher accepts the empty query
\* for every filename.
C4_EmptyQueryNoScan ==
    (Returned /\ Len(query) = 0) =>
        /\ matches = <<>>
        /\ scanned = 0
        /\ \A i \in 1..Len(Enumeration(hashTable)) :
              Enumeration(hashTable)[i].filename # NULL
                 => stristr(Enumeration(hashTable)[i].filename, query) # 0

\* the empty query searched right after a selection, over a non-empty index
C4_Witness ==
    /\ pc = "typing"
    /\ Len(query) = 0
    /\ totalFiles >= 2
    /\ Len(opened) = 1
    /\ matches = <<>>

\* C5: totalFiles is the sum of the bucket lengths in every state; while
\* the index is built and used it is the number of inserts that got their
\* entry, and files of one name are each counted and kept.
C5_CountIsSumOfBuckets ==
    /\ totalFiles = SumOfBuckets(hashTable)
    /\ pc # "done" => totalFiles = Yielded - refused
    /\ (pc # "done" /\ refused = 0 /\ \A p \in Places(hashTable) : HasName(hashTable[p[1]][p[2]]))
          => \A n \in AllNames :
                Cardinality({p \in Places(hashTable) :
                               EntryName(hashTable[p[1]][p[2]]) = n}) = seen[n]

\* two files of one name indexed, and one insert that got no entry
C5_Witness ==
    /\ refused = 1
    /\ totalFiles = 2
    /\ \E n \in AllNames : seen[n] >= 2
    /\ \E b \in DOMAIN hashTable :
          Len(hashTable[b]) = 2 /\ hashTable[b][1].filename = hashTable[b][2].filename

\* C6: every entry is at one place of the table only, in the bucket that is
\* the DJB2 hash of its lowercased name modulo HASH_TABLE_SIZE; bucket
\* indices are in [0, HASH_TABLE_SIZE) and names that differ in letter case
\* only share a bucket.
C6_EntryInItsHashBucket ==
    /\ DOMAIN hashTable \subseteq 0..(HASH_TABLE_SIZE - 1)
    /\ \A p \in Places(hashTable) :
          LET e == hashTable[p[1]][p[2]]
          IN /\ HasName(e) => p[1] = Djb2(Lower(EntryName(e)), 1, HASH_SEED)
             /\ e.fullpath # NULL =>
                   \A o \in Places(hashTable) :
                      hashTable[o[1]][o[2]].fullpath = e.fullpath => o = p
    /\ \A p \in Places(hashTable), o \in Places(hashTable) :
          (/\ HasName(hashTable[p[1]][p[2]])
           /\ HasName(hashTable[o[1]][o[2]])
           /\ Lower(EntryName(hashTable[p[1]][p[2]]))
                 = Lower(EntryName(hashTable[o[1]][o[2]])))
             => p[1] = o[1]

\* names that differ in case in one bucket, beside a name long enough for
\* the hash to wrap around the machine word
C6_Witness ==
    /\ \E b \in DOMAIN hashTable :
          /\ Len(hashTable[b]) = 2
          /\ hashTable[b][1].filename # NULL /\ hashTable[b][2].filename # NULL
          /\ hashTable[b][1].filename # hashTable[b][2].filename
    /\ \E p \in Places(hashTable) :
          hashTable[p[1]][p[2]].filename # NULL /\ Len(hashTable[p[1]][p[2]].filename) > 12

\* C7: after clearIndex totalFiles is 0, every bucket is empty, the
\* enumeration visits no entry and every search returns no match.
C7_ClearEmptiesIndex ==
    pc = "done" =>
        /\ totalFiles = 0
        /\ DOMAIN hashTable = {}
        /\ Enumeration(hashTable) = <<>>
        /\ \A q \in Queries : Search(hashTable, q) = ScanStart

\* the index cleared after it held entries
C7_Witness == pc = "done" /\ Yielded - refused > 1

\* C8: when the loop has terminated the terminal's canonical and echo flags
\* are what they were when the loop started.
C8_TerminalRestored == pc = "terminated" => term = termStart

\* C9: in Confirming with N entries shown, a line that is not a numeral in
\* [1, N] (0, out of range, not a number, digits followed by something
\* else, end of input) launches nothing and the loop is back in Typing.
C9_InvalidSelectionLaunchesNothing ==
    [][(pc = "confirming" /\ pc' # "confirming"
          /\ ~ \E k \in 1..Len(matches) : Denotes(numBuf', k))
       => (opened' = <<>> /\ pc' = "typing")]_vars

\* C10: in Confirming the entries shown are the search result for the
\* query; a numeral k in [1, N] launches the path of the k-th one, once,
\* clears the query and the loop is back in Typing.
C10_ValidSelectionLaunchesChosen ==
    [][pc = "confirming" =>
          /\ Len(query) > 0
          /\ Len(matches) > 0
          /\ matches = Prefix(MatchingOf(hashTable, query), VIEWPORT_HEIGHT)
          /\ \A k \in 1..Len(matches) :
                Denotes(numBuf', k) =>
                   /\ opened' = <<matches[k].fullpath>>
                   /\ query' = <<>>
                   /\ pos' = 0
                   /\ pc' = "typing"]_vars

\* the second of several entries shown has been launched
C10_Witness ==
    /\ pc = "typing"
    /\ numBuf = <<50, 10>>
    /\ Len(opened) = 1
    /\ query = <<>>

\* C11: Enter in Typing leads to Confirming iff the matches shown are not
\* empty; with none shown (the empty query included) it changes nothing:
\* the loop stays in Typing with the same query and matches, no line is
\* read at a prompt, nothing is launched and the terminal is not switched.
C11_EnterConfirmsIffMatches ==
    [][PressEnter =>
          /\ (pc' = "confirming") <=> (Len(matches) > 0)
          /\ Len(matches) = 0 =>
                /\ pc' = "typing"
                /\ query' = query /\ pos' = pos
                /\ matches' = matches
                /\ numBuf' = <<>>
                /\ opened' = <<>>
                /\ term' = term
          /\ Len(query) = 0 => pc' = "typing"]_vars

\* Enter has led to the prompt with one file shown out of several indexed
C11_Witness ==
    /\ pc = "confirming"
    /\ Len(matches) = 1
    /\ totalFiles > 1
    /\ "ICANON" \in term

\* C12: in Typing an ESC can always be read, and reading it ends the loop
\* (Terminated) whatever the query and the matches are, with nothing
\* launched and no line read; once the loop has ended the only step is
\* clearIndex, so the process ends with the index cleared.
C12_EscapeTerminatesThenClears ==
    /\ [](pc = "typing" /\ stdin = <<>> => ENABLED PressEscape)
    /\ [][PressEscape =>
             /\ pc' = "terminated"
             /\ opened' = <<>>
             /\ numBuf' = <<>>
             /\ query' = query /\ matches' = matches]_vars
    /\ [][pc = "terminated" =>
             /\ pc' = "done"
             /\ hashTable' = EmptyTable
             /\ totalFiles' = 0
             /\ opened' = <<>>]_vars
    /\ [](pc = "done" => SumOfBuckets(hashTable) = 0)

\* the process has ended after an ESC read with a query typed and matches
\* shown
C12_Witness ==
    /\ pc = "done"
    /\ Len(query) > 0
    /\ Len(matches) > 1
    /\ Yielded > 0

\* what a search of the index for q returns: nothing for the empty query,
\* else the first matching entries in enumeration order, as many as are shown
Fresh(table, q) ==
    IF Len(q) > 0 THEN Prefix(MatchingOf(table, q), VIEWPORT_HEIGHT) ELSE <<>>

\* C13: wherever the matches are shown, decide what Enter does or are
\* indexed by a selection (Typing and Confirming), they are the result of
\* searching the index for the query as it is now; the index does not
\* change in between, and a step that changes the query leaves the matches
\* of the new query.
C13_MatchesNeverStale ==
    /\ [](pc \in {"typing", "confirming"} => matches = Fresh(hashTable, query))
    /\ [][(pc \in {"typing", "confirming"} /\ pc' \in {"typing", "confirming"})
             => /\ hashTable' = hashTable
                /\ matches' = Fresh(hashTable, query')]_vars

\* a second character has narrowed the matches shown for the first
C13_Witness ==
    /\ pc = "typing"
    /\ Len(query) = 2
    /\ Len(matches) > 0
    /\ Len(Fresh(hashTable, SubSeq(query, 1, 1))) > Len(matches)

\* C14: in Typing a printable character is appended to the query when it
\* holds fewer than QUERY_SIZE - 1 (255) characters and changes nothing when
\* it is full; the loop stays in Typing, and the query never holds more
\* than 255 characters.
C14_TypingAppendsUpToCapacity ==
    /\ [](Len(query) <= QUERY_SIZE - 1 /\ pos = Len(query))
    /\ [][\A c \in CharsOf(root) :
             KeyStep(c) =>
                /\ isprint(c)
                /\ query' = IF Len(query) < QUERY_SIZE - 1
                            THEN query \o <<c>> ELSE query
                /\ pc' = "typing"]_vars

\* the buffer is full
C14_Witness ==
    /\ pc = "typing"
    /\ Len(query) = QUERY_SIZE - 1
    /\ pos = QUERY_SIZE - 1
    /\ totalFiles > 0

\* C15: in Typing a backspace removes the last character of a query that
\* is not empty and changes nothing when it is empty; pos never goes below
\* 0 and the loop stays in Typing.  A character appended to a buffer that
\* was not full and then erased leaves the buffer as it was.
C15_BackspaceRemovesLast ==
    /\ [](pos >= 0 /\ pos = Len(query))
    /\ [][PressBackspace =>
             /\ query' = IF Len(query) > 0
                         THEN SubSeq(query, 1, Len(query) - 1) ELSE <<>>
             /\ Len(query) > 0 => query' \o <<query[Len(query)]>> = query
             /\ pc' = "typing"]_vars
    /\ [][\A c \in CharsOf(root) :
             (KeyStep(c) /\ Len(query) < QUERY_SIZE - 1)
                => /\ query' # query
                   /\ Erase(query', pos') = [query |-> query, pos |-> pos]]_vars

\* a full buffer from which a backspace takes one character
C15_Witness ==
    /\ pc = "typing"
    /\ Len(query) = QUERY_SIZE - 1
    /\ ENABLED (PressBackspace /\ Len(query') = QUERY_SIZE - 2 /\ pc' = "typing")

\* C16: an insert one of whose allocations fails (the entry, the copy of
\* the name or the copy of the path) leaves the index as it was: no entry
\* is added, totalFiles is not incremented, and no entry without a name or
\* a path is in the table for a search to reach.
C16_FailedInsertLeavesIndexUnchanged ==
    /\ [][(/\ pc = "build"
           /\ seen' # seen
           /\ \/ refused' > refused
              \/ NullFields(hashTable') > NullFields(hashTable))
             => /\ hashTable' = hashTable
                /\ totalFiles' = totalFiles]_vars
    /\ [](\A p \in Places(hashTable) :
             /\ hashTable[p[1]][p[2]].filename # NULL
             /\ hashTable[p[1]][p[2]].fullpath # NULL)
    /\ [](pc # "crashed")

\* C17: every insert comes before the first search, and no step of the
\* loop (typing, backspace, Enter, selection, ESC) changes a bucket, an
\* entry or totalFiles; the index changes only while it is built and when
\* clearIndex empties it after the loop has ended.
C17_IndexFrozenDuringLoop ==
    /\ [](pc = "build" => scanned = 0 /\ matches = <<>> /\ query = <<>>)
    /\ [][pc # "build" => seen' = seen /\ refused' = refused]_vars
    /\ [][(pc = "typing" \/ pc = "confirming")
             => (hashTable' = hashTable /\ totalFiles' = totalFiles)]_vars
    /\ [][(hashTable' # hashTable \/ totalFiles' # totalFiles)
          =>
             \/ pc = "build" /\ pc' = "build"
             \/ pc = "terminated" /\ pc' = "done" /\ hashTable' = EmptyTable]_vars

\* the loop has ended after a selection and a further search, over an index
\* that still holds every entry inserted
C17_Witness ==
    /\ pc = "terminated"
    /\ term # termStart
    /\ Len(matches) > 0
    /\ totalFiles > 1
    /\ totalFiles = Yielded - refused

\* C18: every access to matches[] is inside the array.  The scan stores at
\* index count < MAX_RESULTS, because it stops when count reaches
\* VIEWPORT_HEIGHT, which is smaller; a selection reads slot choice - 1
\* only with 0 <= choice - 1 < count, whatever line is typed.
C18_MatchArrayInBounds ==
    /\ [](VIEWPORT_HEIGHT < MAX_RESULTS /\ Len(matches) <= VIEWPORT_HEIGHT)
    /\ [](pc # "overrun")
    /\ [][(pc = "confirming" /\ opened' # <<>>) =>
             /\ numBuf' # NULL
             /\ atoi(numBuf') - 1 >= 0
             /\ atoi(numBuf') - 1 < Len(matches)
             /\ opened' = <<matches[(atoi(numBuf') - 1) + 1].fullpath>>]_vars

\* the prompt over a scan that stopped at the cap, with more entries matching
C18_Witness ==
    /\ pc = "confirming"
    /\ Len(matches) = VIEWPORT_HEIGHT
    /\ Len(MatchingOf(hashTable, query)) > VIEWPORT_HEIGHT

\* C19: every step out of Confirming leaves the query empty (pos 0),
\* whether the line was a valid selection, an invalid one, zero or could not
\* be read; the search that follows returns no match, and none is shown
\* while the query stays empty.
C19_ConfirmingClearsQuery ==
    /\ [][pc = "confirming" =>
             /\ numBuf' \in {fgets(l) : l \in LinesAt(stdin)}
             /\ query' = <<>> /\ Len(query') = 0 /\ pos' = 0
             /\ matches' = <<>> /\ scanned' = 0
             /\ pc' = "typing"]_vars
    /\ [](pc = "typing" /\ Len(query) = 0 => matches = <<>>)

\* back in Typing with an empty query after a prompt at which no line could
\* be read
C19_Witness ==
    /\ pc = "typing"
    /\ numBuf = NULL
    /\ opened = <<>>
    /\ query = <<>>
    /\ Yielded > 0

\* C20: the loop ends only by an ESC that the user presses in Typing.  No
\* other key ends it, no step out of Confirming ends it, and the ESC that
\* ends it is not a byte of a line typed at the selection prompt; at end of
\* input in Typing a read changes neither the query nor the matches nor the
\* state.
C20_OnlyEscapeInTypingTerminates ==
    /\ [][(pc # "terminated" /\ pc' = "terminated")
             => (pc = "typing" /\ PressEscape)]_vars
    /\ [][\A c \in {KEY_CR, KEY_LF, KEY_DEL, KEY_BS, EOF} \cup IgnoredKeys \cup CharsOf(root) :
             KeyStep(c) => pc' # "terminated"]_vars
    /\ [][pc = "confirming" => pc' # "terminated"]_vars
    /\ [][(pc = "typing" /\ pc' = "terminated") => stdin = <<>>]_vars
    /\ [][KeyStep(EOF) =>
             /\ pc' = "typing"
             /\ query' = query /\ pos' = pos
             /\ matches' = matches]_vars

=============================================================================
